---- MODULE Spec2Model ----
(***************************************************************************)
(* Model of unwrap.py: the SNAPHU configuration writer, the two raster /   *)
(* flat-binary conversions and the driver main().                          *)
(*                                                                         *)
(* Files are modelled by three maps, one per kind of content (rasters,     *)
(* flat binaries, configuration texts); a path is in the DOMAIN of a map   *)
(* exactly when the file exists.                                           *)
(***************************************************************************)
EXTENDS Integers, Sequences, FiniteSets, TLC

VARIABLES
    rasters,     \* path -> raster dataset (GDAL file)
    bins,        \* path -> flat binary file
    confs,       \* path -> configuration text (sequence of directive lines)
    call,        \* the last function call and its arguments
    ret,         \* what the last call did: error raised, I/O performed, value
    pc,          \* position of main()
    file_index,  \* main(): index of the conversion loop in files
    trace,       \* main(): the calls made so far, in order
    exit_status  \* main(): what subprocess.call returned, -1 before the call

vars == <<rasters, bins, confs, call, ret, pc, file_index, trace, exit_status>>

(***************************************************************************)
(* Bounds of the model.                                                    *)
(***************************************************************************)
MaxDim == 2        \* raster shapes given to the config writer: 1..MaxDim
MaxTile == 3       \* tile grid rows / columns: 1..MaxTile

EmptyMap == [p \in {} |-> {}]

(***************************************************************************)
(* Configuration templates.  A template is the sequence of its directive   *)
(* lines (comment and blank lines carry no directive and are left out); a  *)
(* line is keyword + value, the value either literal text or a {name}      *)
(* placeholder of str.format.                                              *)
(***************************************************************************)
Lit(k, v) == [key |-> k, ph |-> FALSE, val |-> v]
Ph(k, name) == [key |-> k, ph |-> TRUE, val |-> name]

base_template ==
    << Ph("INFILE", "infile"),
       Ph("INFILEFORMAT", "informat"),
       Ph("LINELENGTH", "width"),
       Ph("NLOOKSRANGE", "looks_range"),
       Ph("NLOOKSAZ", "looks_az"),
       Ph("OUTFILE", "outfile"),
       Ph("OUTFILEFORMAT", "outformat"),
       Ph("CORRFILE", "corfile"),
       Lit("CORRFILEFORMAT", "FLOAT_DATA"),
       Lit("STATCOSTMODE", "DEFO"),
       Lit("DEFOMAX_CYCLE", "4.0"),
       Lit("INITMETHOD", "MCF"),
       Lit("MAXNCOMPS", "32") >>

tile_template ==
    << Ph("NTILEROW", "ntilerow"),
       Ph("NTILECOL", "ntilecol"),
       Ph("ROWOVRLP", "overlap"),
       Ph("COLOVRLP", "overlap"),
       Ph("NPROC", "nproc") >>

mask_template == << Ph("BYTEMASKFILE", "mask") >>

unwrap_template ==
    << Lit("UNWRAPPED_IN", "TRUE"),
       Lit("UNWRAPPEDINFILEFORMAT", "FLOAT_DATA") >>

(***************************************************************************)
(* Option values are Python strings or ints; str.format renders an int in  *)
(* decimal.                                                                *)
(***************************************************************************)
OptStr(s) == [int |-> FALSE, s |-> s, n |-> 0]
OptInt(n) == [int |-> TRUE, s |-> "", n |-> n]
Render(v) == IF v.int THEN ToString(v.n) ELSE v.s

\* template.format(**options): KeyError when a placeholder has no option.
Format(template, options) ==
    IF \E i \in 1..Len(template) :
           template[i].ph /\ template[i].val \notin DOMAIN options
    THEN [err |-> "KeyError", text |-> <<>>]
    ELSE [err |-> "none",
          text |-> [i \in 1..Len(template) |->
                      [key |-> template[i].key,
                       val |-> IF template[i].ph
                               THEN Render(options[template[i].val])
                               ELSE template[i].val]]]

\* Python truth value of a tuple-or-None and of a str-or-None argument:
\* None and the empty value are both false; they are modelled by <<>> and "".
TruthySeq(t) == t # <<>>
TruthyStr(s) == s # ""

\* Mutant: the commented-out line 97, the input format following the flag.
BaseOptions_flagFormat(a) ==
    [infile |-> OptStr(a.in_ifg),
     informat |-> OptStr(IF a.unwrapped THEN "FLOAT_DATA" ELSE "COMPLEX_DATA"),
     corfile |-> OptStr(a.in_cor),
     looks_az |-> OptInt(a.looks_az),
     looks_range |-> OptInt(a.looks_range),
     width |-> OptInt(a.shape[2]),
     outfile |-> OptStr(a.out_file),
     outformat |-> OptStr("FLOAT_DATA")]

\* Mutant: the line length taken from the row count, shape[0].
BaseOptions_rows(a) ==
    [infile |-> OptStr(a.in_ifg),
     informat |-> OptStr("FLOAT_DATA"),
     corfile |-> OptStr(a.in_cor),
     looks_az |-> OptInt(a.looks_az),
     looks_range |-> OptInt(a.looks_range),
     width |-> OptInt(a.shape[1]),
     outfile |-> OptStr(a.out_file),
     outformat |-> OptStr("FLOAT_DATA")]

\* in_format and the options dict; shape[1] of Python is the second element.
BaseOptions(a) ==
    [infile |-> OptStr(a.in_ifg),
     informat |-> OptStr("FLOAT_DATA"),
     corfile |-> OptStr(a.in_cor),
     looks_az |-> OptInt(a.looks_az),
     looks_range |-> OptInt(a.looks_range),
     width |-> OptInt(a.shape[2]),
     outfile |-> OptStr(a.out_file),
     outformat |-> OptStr("FLOAT_DATA")]

\* Mutant: the process count as the sum of the grid's sides.
TileOptions_sum(tile_shape, tile_overlap) ==
    [ntilerow |-> OptInt(tile_shape[1]),
     ntilecol |-> OptInt(tile_shape[2]),
     overlap |-> OptInt(tile_overlap),
     nproc |-> OptInt(tile_shape[1] + tile_shape[2])]

\* The options added by the tiling branch.
TileOptions(tile_shape, tile_overlap) ==
    LET ntilerow == tile_shape[1]
        ntilecol == tile_shape[2]
        nproc == ntilerow * ntilecol
    IN  [ntilerow |-> OptInt(ntilerow),
         ntilecol |-> OptInt(ntilecol),
         overlap |-> OptInt(tile_overlap),
         nproc |-> OptInt(nproc)]

\* Mutant: the masking section appended after the pre-unwrapped section.
SelectTemplate_maskLast(a) ==
    LET t1 == IF TruthySeq(a.tile_shape)
              THEN base_template \o tile_template ELSE base_template
        t2 == IF a.unwrapped THEN t1 \o unwrap_template ELSE t1
    IN  IF TruthyStr(a.in_mask) THEN t2 \o mask_template ELSE t2

\* The template assembled by the three if statements.
SelectTemplate(a) ==
    LET t1 == IF TruthySeq(a.tile_shape)
              THEN base_template \o tile_template ELSE base_template
        t2 == IF TruthyStr(a.in_mask) THEN t1 \o mask_template ELSE t1
    IN  IF a.unwrapped THEN t2 \o unwrap_template ELSE t2

\* The options dict when template.format is reached.
SelectOptions(a) ==
    LET o1 == IF TruthySeq(a.tile_shape)
              THEN TileOptions(a.tile_shape, a.tile_overlap) @@ BaseOptions(a)
              ELSE BaseOptions(a)
    IN  IF TruthyStr(a.in_mask)
        THEN [mask |-> OptStr(a.in_mask)] @@ o1
        ELSE o1

\* write_snaphu_config: the formatted text, the file it writes, its value.
write_snaphu_config(a) ==
    LET f == Format(SelectTemplate(a), SelectOptions(a))
    IN  IF f.err # "none"
        THEN [err |-> f.err, io |-> <<>>, text |-> <<>>, value |-> <<>>]
        ELSE [err |-> "none",
              io |-> << <<"write", a.out_conf>> >>,
              text |-> f.text,
              value |-> <<a.out_conf, a.out_file>>]

(***************************************************************************)
(* Rasters and flat binaries.                                              *)
(*                                                                         *)
(* A raster is [dtype, nodata, shape, data]: the band's GDAL pixel type,   *)
(* its nodata value, <<RasterYSize, RasterXSize>> and band 1 in row-major  *)
(* order.  Sample values are integers; a Float32 sample stands for the     *)
(* float of that value, a CFloat32 sample x for x+0j.  Every raster of the *)
(* model defines a nodata value.                                           *)
(*                                                                         *)
(* A flat binary is [itemsize, items]: the element size in bytes and the   *)
(* elements as written; a 1-byte element is the byte 0..255, a 4-byte      *)
(* element the float32 it encodes.                                         *)
(***************************************************************************)
NPix == 2          \* pixels per raster row of the model's rasters

GDT_Float32 == "Float32"
GDT_Byte == "Byte"
GDT_CFloat32 == "CFloat32"
GDT_Int16 == "Int16"
GdalTypes == {GDT_Float32, GDT_Byte, GDT_CFloat32, GDT_Int16}

\* float32(pi), the phase np.angle gives a negative real sample.  The model
\* does no arithmetic on phases: the number only has to differ from the
\* samples.
PiFloat32 == 31416

Raster(dtype, nodata, shape, data) ==
    [dtype |-> dtype, nodata |-> nodata, shape |-> shape, data |-> data]

NumPixels(shape) == shape[1] * shape[2]

Clamp(v, lo, hi) == IF v < lo THEN lo ELSE IF v > hi THEN hi ELSE v

\* numpy cast of an integer to int8 / of an int8 to the byte that stores it
ToInt8(v) == ((v + 128) % 256) - 128
ToUInt8(v) == v % 256

\* Band.ReadAsArray(buf_type=dtype): GDAL converts each sample of the band
\* to the requested type, clamping to the range of an integer type.
ReadAsArray(raster, buf_type) ==
    LET Conv(v) == CASE buf_type = GDT_Byte -> Clamp(v, 0, 255)
                     [] buf_type = GDT_Int16 -> Clamp(v, -32768, 32767)
                     [] OTHER -> v
    IN  [i \in 1..Len(raster.data) |-> Conv(raster.data[i])]

\* np.angle of x+0j
Angle(x) == IF x < 0 THEN PiFloat32 ELSE 0

\* Mutant: an unknown pixel type silently treated as float32.
PyDtypeOfRequest_fallback(dtype) ==
    IF dtype = GDT_Byte THEN "int8" ELSE "float32"

\* The if / elif chain of gdal_to_binary; np.byte is the signed int8.
PyDtypeOfRequest(dtype) ==
    CASE dtype = GDT_Float32 -> "float32"
      [] dtype = GDT_Byte -> "int8"
      [] dtype = GDT_CFloat32 -> "float32"
      [] OTHER -> "NotImplementedError"

\* Mutant: the chain of gdal_to_binary copied, complex templates accepted.
PyDtypeOfTemplate_complex(dtype) ==
    CASE dtype = GDT_Float32 -> "float32"
      [] dtype = GDT_Byte -> "int8"
      [] dtype = GDT_CFloat32 -> "float32"
      [] OTHER -> "NotImplementedError"

\* The if / elif chain of binary_to_gdal.
PyDtypeOfTemplate(dtype) ==
    CASE dtype = GDT_Float32 -> "float32"
      [] dtype = GDT_Byte -> "int8"
      [] OTHER -> "NotImplementedError"

ItemSize(py_dtype) == IF py_dtype = "int8" THEN 1 ELSE 4

\* arr.astype(py_dtype)
AsType(arr, py_dtype) ==
    [i \in 1..Len(arr) |-> IF py_dtype = "int8" THEN ToInt8(arr[i]) ELSE arr[i]]

\* arr.tofile(outpath): the elements in row-major order, no header
ToFile(arr, py_dtype) ==
    [itemsize |-> ItemSize(py_dtype),
     items |-> [i \in 1..Len(arr) |->
                  IF py_dtype = "int8" THEN ToUInt8(arr[i]) ELSE arr[i]]]

NoFailure == "none"

\* gdal_to_binary: error raised, I/O performed in order, the binaries after.
gdal_to_binary(rs, bs, inpath, outpath, dtype) ==
    LET py_dtype == PyDtypeOfRequest(dtype)
    IN  IF py_dtype = "NotImplementedError"
        THEN [err |-> "NotImplementedError", io |-> <<>>, bins |-> bs]
        ELSE IF inpath \notin DOMAIN rs
        THEN [err |-> "OpenError", io |-> << <<"open", inpath>> >>, bins |-> bs]
        ELSE LET read == ReadAsArray(rs[inpath], dtype)
                 arr == IF dtype = GDT_CFloat32
                        THEN [i \in 1..Len(read) |-> Angle(read[i])] ELSE read
                 file == ToFile(AsType(arr, py_dtype), py_dtype)
             IN  [err |-> NoFailure,
                  io |-> << <<"open", inpath>>, <<"write", outpath>> >>,
                  bins |-> [p \in DOMAIN bs \cup {outpath} |->
                              IF p = outpath THEN file ELSE bs[p]]]

\* np.fromfile(inpath, dtype=py_dtype).reshape(shape): the file's bytes cut
\* into elements of py_dtype; reshape raises ValueError unless they number
\* exactly shape[0] * shape[1].  An int8 element is the byte read as signed.
\* (All rasters of the model have NPix pixels, so a file of another element
\* size never has the matching byte length.)
FromFile(file, py_dtype, shape) ==
    LET nbytes == Len(file.items) * file.itemsize
        Dec(b) == IF py_dtype = "int8" THEN ToInt8(b) ELSE b
    IN  IF nbytes # NumPixels(shape) * ItemSize(py_dtype)
        THEN [err |-> "ValueError", arr |-> <<>>]
        ELSE [err |-> NoFailure,
              arr |-> [i \in 1..Len(file.items) |-> Dec(file.items[i])]]

\* arr[mask == 0] = nodata_value: the value is cast to the array's type
SetWhereMaskZero(arr, mask, nodata_value, py_dtype) ==
    [i \in 1..Len(arr) |->
        IF mask[i] = 0
        THEN (IF py_dtype = "int8" THEN ToInt8(nodata_value) ELSE nodata_value)
        ELSE arr[i]]

\* How Band.WriteArray stores an int8 array in a Byte band depends on the
\* GDAL build: bindings that map numpy int8 to GDT_Byte hand the bytes over
\* as they are ("reinterpret"); bindings that map it to GDT_Int8 have GDAL
\* convert signed to unsigned, which clamps negatives to 0 ("clamp").
WriteModes == {"reinterpret", "clamp"}

WriteArray(arr, py_dtype, band_dtype, mode) ==
    LET Conv(v) == IF py_dtype = "int8" /\ band_dtype = GDT_Byte
                   THEN (IF mode = "reinterpret" THEN ToUInt8(v)
                         ELSE Clamp(v, 0, 255))
                   ELSE v
    IN  [i \in 1..Len(arr) |-> Conv(arr[i])]

\* binary_to_gdal: error raised, I/O performed in order, the rasters after.
binary_to_gdal(rs, bs, inpath, templatepath, maskpath, outpath, mode) ==
    LET Fail(e, io) == [err |-> e, io |-> io, rasters |-> rs]
        io1 == << <<"open", templatepath>> >>
        io2 == Append(io1, <<"open", maskpath>>)
        io3 == Append(io2, <<"read", inpath>>)
        io4 == Append(io3, <<"create", outpath>>)
    IN  IF templatepath \notin DOMAIN rs THEN Fail("OpenError", io1) ELSE
        LET ds == rs[templatepath]
            nodata_value == ds.nodata
            dtype == ds.dtype
            shape == ds.shape
            py_dtype == PyDtypeOfTemplate(dtype)
        IN  IF py_dtype = "NotImplementedError"
            THEN Fail("NotImplementedError", io1)
            ELSE IF maskpath \notin DOMAIN rs THEN Fail("OpenError", io2)
            ELSE IF inpath \notin DOMAIN bs THEN Fail("FileNotFoundError", io3)
            ELSE
        LET mask == rs[maskpath].data
            read == FromFile(bs[inpath], py_dtype, shape)
        IN  IF read.err # NoFailure THEN Fail(read.err, io3)
            ELSE IF rs[maskpath].shape # shape THEN Fail("IndexError", io3)
            ELSE
        LET arr == SetWhereMaskZero(read.arr, mask, nodata_value, py_dtype)
            out == Raster(dtype, nodata_value, shape,
                          WriteArray(arr, py_dtype, dtype, mode))
        IN  [err |-> NoFailure,
             io |-> io4,
             rasters |-> [p \in DOMAIN rs \cup {outpath} |->
                            IF p = outpath THEN out ELSE rs[p]]]

(***************************************************************************)
(* Calls of the three functions on their own.                              *)
(***************************************************************************)
NoCall == [op |-> "none"]
NoReturn == [err |-> NoFailure, io |-> <<>>, value |-> <<>>]

Put(map, path, content) ==
    [p \in DOMAIN map \cup {path} |-> IF p = path THEN content ELSE map[p]]

MainIdle ==
    /\ pc = "idle"
    /\ file_index = 0
    /\ trace = <<>>
    /\ exit_status = -1

\* The arguments write_snaphu_config is called with.  <<>> and "" are the
\* defaults tile_shape=None and in_mask=None.
ConfigArgs ==
    [in_ifg : {"ifg.bin"},
     in_cor : {"cor.bin"},
     looks_az : {1, 4},
     looks_range : {1, 20},
     shape : (1..MaxDim) \X (1..MaxDim),
     out_conf : {"snaphu.conf"},
     out_file : {"out.bin"},
     tile_shape : {<<>>} \cup ((1..MaxTile) \X (1..MaxTile)),
     tile_overlap : {600, 50},
     in_mask : {"", "mask.bin"},
     unwrapped : BOOLEAN]

Pending == [err |-> "pending", io |-> <<>>, value |-> <<>>]

\* One call per behaviour: Init draws the arguments, the action makes the call.
InitConfig ==
    /\ rasters = EmptyMap
    /\ bins = EmptyMap
    /\ confs = EmptyMap
    /\ \E a \in ConfigArgs : call = [op |-> "write_snaphu_config", args |-> a]
    /\ ret = Pending
    /\ MainIdle

WriteSnaphuConfig ==
    /\ ret = Pending
    /\ LET a == call.args
           r == write_snaphu_config(a)
       IN  /\ ret' = [err |-> r.err, io |-> r.io, value |-> r.value]
           /\ confs' = IF r.err = NoFailure
                       THEN Put(confs, a.out_conf, r.text) ELSE confs
    /\ UNCHANGED <<rasters, bins, call, pc, file_index, trace, exit_status>>

NextConfig == WriteSnaphuConfig

SpecConfig == InitConfig /\ [][NextConfig]_vars

(***************************************************************************)
(* The conversions on their own: a source raster of either supported type, *)
(* a mask, and two rasters of the types binary_to_gdal rejects.            *)
(***************************************************************************)
ByteSamples == {127, 128}
FloatSamples == {-2, 3}
MaskSamples == {0, 255}

ModelShape == <<1, NPix>>
Arrays(S) == [1..NPix -> S]

SourceRasters ==
    {Raster(GDT_Byte, 100, ModelShape, d) : d \in Arrays(ByteSamples)}
    \cup {Raster(GDT_Float32, -9999, ModelShape, d) : d \in Arrays(FloatSamples)}

MaskRasters == {Raster(GDT_Byte, 0, ModelShape, d) : d \in Arrays(MaskSamples)}

InitConv ==
    /\ \E src \in SourceRasters, mask \in MaskRasters :
          rasters = [p \in {"src.tif", "mask.tif", "complex.tif", "int16.tif"} |->
                       CASE p = "src.tif" -> src
                         [] p = "mask.tif" -> mask
                         [] p = "complex.tif" ->
                              Raster(GDT_CFloat32, 0, ModelShape, [i \in 1..NPix |-> 1 - i])
                         [] p = "int16.tif" ->
                              Raster(GDT_Int16, -1, ModelShape, [i \in 1..NPix |-> 300 * i])]
    /\ bins = EmptyMap
    /\ confs = EmptyMap
    /\ call = NoCall
    /\ ret = NoReturn
    /\ MainIdle

GdalToBinary ==
    \E inpath \in {"src.tif", "mask.tif", "complex.tif", "int16.tif", "missing.tif"},
       dtype \in GdalTypes :
        LET r == gdal_to_binary(rasters, bins, inpath, "data.bin", dtype)
        IN  /\ call' = [op |-> "gdal_to_binary", inpath |-> inpath,
                        outpath |-> "data.bin", dtype |-> dtype]
            /\ ret' = [err |-> r.err, io |-> r.io, value |-> <<>>]
            /\ bins' = r.bins
            /\ UNCHANGED <<rasters, confs, pc, file_index, trace, exit_status>>

BinaryToGdal ==
    \E inpath \in {"data.bin"},
       templatepath \in {"src.tif", "mask.tif", "complex.tif", "int16.tif"},
       mode \in WriteModes :
        LET r == binary_to_gdal(rasters, bins, inpath, templatepath,
                                "mask.tif", "out.tif", mode)
        IN  /\ call' = [op |-> "binary_to_gdal", inpath |-> inpath,
                        templatepath |-> templatepath, maskpath |-> "mask.tif",
                        outpath |-> "out.tif"]
            /\ ret' = [err |-> r.err, io |-> r.io, value |-> <<>>]
            /\ rasters' = r.rasters
            /\ UNCHANGED <<bins, confs, pc, file_index, trace, exit_status>>

NextConv == GdalToBinary \/ BinaryToGdal

SpecConv == InitConv /\ [][NextConv]_vars

(***************************************************************************)
(* Properties of write_snaphu_config (checked under SpecConfig).           *)
(***************************************************************************)
ConfigWritten ==
    /\ call.op = "write_snaphu_config"
    /\ ret.err = NoFailure
    /\ call.args.out_conf \in DOMAIN confs

WrittenConf == confs[call.args.out_conf]

Keys(text) == [i \in 1..Len(text) |-> text[i].key]
Line(k, v) == [key |-> k, val |-> v]

\* The keyword lists of the configuration file format, section by section.
BaseKeywords ==
    <<"INFILE", "INFILEFORMAT", "LINELENGTH", "NLOOKSRANGE", "NLOOKSAZ",
      "OUTFILE", "OUTFILEFORMAT", "CORRFILE", "CORRFILEFORMAT",
      "STATCOSTMODE", "DEFOMAX_CYCLE", "INITMETHOD", "MAXNCOMPS">>
TilingKeywords == <<"NTILEROW", "NTILECOL", "ROWOVRLP", "COLOVRLP", "NPROC">>
MaskingKeywords == <<"BYTEMASKFILE">>
PreUnwrappedKeywords == <<"UNWRAPPED_IN", "UNWRAPPEDINFILEFORMAT">>

TilingRequested(a) == a.tile_shape # <<>>
MaskRequested(a) == a.in_mask # ""

Occurrences(text, k) == Cardinality({i \in 1..Len(text) : text[i].key = k})
Has(text, k) == Occurrences(text, k) > 0
HasAll(text, ks) == \A j \in 1..Len(ks) : Has(text, ks[j])
HasNone(text, ks) == \A j \in 1..Len(ks) : ~Has(text, ks[j])

\* C1: the written config is the base section followed by exactly the
\* requested optional sections in the order base, tiling, masking,
\* pre-unwrapped: the tiling directives are present iff a tile grid shape is
\* supplied, BYTEMASKFILE iff a mask path is supplied, UNWRAPPED_IN and
\* UNWRAPPEDINFILEFORMAT iff the pre-unwrapped flag is set, and no directive
\* appears twice or out of order.
C1_SectionsMatchFeatures ==
    ConfigWritten =>
        LET a == call.args
            text == WrittenConf
        IN  /\ Keys(text) =
                  BaseKeywords
                  \o (IF TilingRequested(a) THEN TilingKeywords ELSE <<>>)
                  \o (IF MaskRequested(a) THEN MaskingKeywords ELSE <<>>)
                  \o (IF a.unwrapped THEN PreUnwrappedKeywords ELSE <<>>)
            /\ IF TilingRequested(a) THEN HasAll(text, TilingKeywords)
                                     ELSE HasNone(text, TilingKeywords)
            /\ Has(text, "BYTEMASKFILE") <=> MaskRequested(a)
            /\ MaskRequested(a) =>
                  \E i \in 1..Len(text) : text[i] = Line("BYTEMASKFILE", a.in_mask)
            /\ IF a.unwrapped
               THEN SubSeq(text, Len(text) - 1, Len(text)) =
                        << Line("UNWRAPPED_IN", "TRUE"),
                           Line("UNWRAPPEDINFILEFORMAT", "FLOAT_DATA") >>
               ELSE HasNone(text, PreUnwrappedKeywords)
            /\ \A i \in 1..Len(text) : Occurrences(text, text[i].key) = 1

\* C1 witness: a call requesting all three optional sections has written a
\* config of 13 + 5 + 1 + 2 directives.
C1_Witness ==
    /\ ConfigWritten
    /\ TilingRequested(call.args)
    /\ MaskRequested(call.args)
    /\ call.args.unwrapped
    /\ Len(WrittenConf) = 21

\* C5: with a tile grid shape (rows, cols) the config carries exactly the
\* five tiling directives, NTILEROW = rows, NTILECOL = cols, ROWOVRLP =
\* COLOVRLP = the tile overlap, NPROC = rows * cols.
C5_TilingDirectives ==
    (ConfigWritten /\ TilingRequested(call.args)) =>
        LET a == call.args
            text == WrittenConf
            rows == a.tile_shape[1]
            cols == a.tile_shape[2]
        IN  /\ SubSeq(text, 14, 18) =
                  << Line("NTILEROW", ToString(rows)),
                     Line("NTILECOL", ToString(cols)),
                     Line("ROWOVRLP", ToString(a.tile_overlap)),
                     Line("COLOVRLP", ToString(a.tile_overlap)),
                     Line("NPROC", ToString(rows * cols)) >>
            /\ \A j \in 1..5 : Occurrences(text, TilingKeywords[j]) = 1

\* C5 witness: tile shape (3, 3) has been written with NPROC 9.
C5_Witness ==
    /\ ConfigWritten
    /\ call.args.tile_shape = <<3, 3>>
    /\ \E i \in 1..Len(WrittenConf) : WrittenConf[i] = Line("NPROC", "9")

\* C6: with no optional feature the config is the base section alone: the
\* 13 base keywords, LINELENGTH the pixel-column count shape[1], NLOOKSAZ
\* and NLOOKSRANGE the azimuth and range looks, INFILE / OUTFILE / CORRFILE
\* the supplied paths, the other values the fixed literals.
C6_BaseSectionOnly ==
    (/\ ConfigWritten
     /\ ~TilingRequested(call.args)
     /\ ~MaskRequested(call.args)
     /\ ~call.args.unwrapped) =>
        LET a == call.args
        IN  WrittenConf =
              << Line("INFILE", a.in_ifg),
                 Line("INFILEFORMAT", "FLOAT_DATA"),
                 Line("LINELENGTH", ToString(a.shape[2])),
                 Line("NLOOKSRANGE", ToString(a.looks_range)),
                 Line("NLOOKSAZ", ToString(a.looks_az)),
                 Line("OUTFILE", a.out_file),
                 Line("OUTFILEFORMAT", "FLOAT_DATA"),
                 Line("CORRFILE", a.in_cor),
                 Line("CORRFILEFORMAT", "FLOAT_DATA"),
                 Line("STATCOSTMODE", "DEFO"),
                 Line("DEFOMAX_CYCLE", "4.0"),
                 Line("INITMETHOD", "MCF"),
                 Line("MAXNCOMPS", "32") >>

\* C6 witness: a featureless call on a raster of 2 rows and 1 column, with
\* distinct looks, has written LINELENGTH 1.
C6_Witness ==
    /\ ConfigWritten
    /\ ~TilingRequested(call.args)
    /\ ~MaskRequested(call.args)
    /\ ~call.args.unwrapped
    /\ call.args.shape = <<2, 1>>
    /\ call.args.looks_az = 4
    /\ call.args.looks_range = 20
    /\ WrittenConf[3] = Line("LINELENGTH", "1")

\* C7: INFILEFORMAT is FLOAT_DATA in every written config, and the base
\* section is the one the call with the opposite pre-unwrapped flag (all
\* else equal) produces.
C7_InputFormatFixed ==
    ConfigWritten =>
        LET a == call.args
            other == write_snaphu_config([a EXCEPT !.unwrapped = ~a.unwrapped])
        IN  /\ \E i \in 1..Len(WrittenConf) :
                  WrittenConf[i] = Line("INFILEFORMAT", "FLOAT_DATA")
            /\ Occurrences(WrittenConf, "INFILEFORMAT") = 1
            /\ other.err = NoFailure
            /\ SubSeq(WrittenConf, 1, 13) = SubSeq(other.text, 1, 13)
            /\ Len(other.text) # Len(WrittenConf)

\* C7 witness: a call with the pre-unwrapped flag unset has written
\* INFILEFORMAT FLOAT_DATA.
C7_Witness ==
    /\ ConfigWritten
    /\ ~call.args.unwrapped
    /\ WrittenConf[2] = Line("INFILEFORMAT", "FLOAT_DATA")

(***************************************************************************)
(* Properties of the conversions (checked under SpecConv).                 *)
(***************************************************************************)
ToBinaryTypes == {GDT_Float32, GDT_Byte, GDT_CFloat32}
ToGdalTypes == {GDT_Float32, GDT_Byte}

ToGdalDone ==
    /\ call.op = "binary_to_gdal"
    /\ ret.err = NoFailure

\* The elements of a flat binary as pixels of the template's type: a byte is
\* the Byte pixel 0..255, a float32 the Float32 pixel.
PixelsOf(file) == file.items

\* C2: binary_to_gdal, for a mask of the template's shape, sets every pixel
\* where the mask is 0 to the template's nodata value and leaves every other
\* pixel equal to the value the source binary holds at the same row-major
\* position.
C2_MaskedPixelsNodata ==
    ToGdalDone =>
        LET t == rasters[call.templatepath]
            m == rasters[call.maskpath]
            out == rasters[call.outpath]
            src == PixelsOf(bins[call.inpath])
        IN  m.shape = t.shape =>
              /\ out.shape = t.shape
              /\ \A i \in 1..NumPixels(t.shape) :
                    IF m.data[i] = 0
                    THEN out.data[i] = t.nodata
                    ELSE out.data[i] = src[i]

\* C3: round trip.  A Float32 or Byte raster converted by gdal_to_binary
\* with its own type, and the binary converted back by binary_to_gdal with
\* that raster as template and a mask marking every pixel valid, gives a
\* raster holding the original array.
C3_RoundTrip ==
    ToGdalDone =>
        LET t == rasters[call.templatepath]
            m == rasters[call.maskpath]
            out == rasters[call.outpath]
            there == gdal_to_binary(rasters, bins, call.templatepath,
                                    call.inpath, t.dtype)
        IN  (/\ t.dtype \in ToGdalTypes
             /\ there.err = NoFailure
             /\ bins[call.inpath] = there.bins[call.inpath]
             /\ \A i \in 1..Len(m.data) : m.data[i] # 0)
            => out.data = t.data

\* C4: gdal_to_binary with a pixel type other than Float32, Byte, CFloat32
\* raises NotImplementedError before the source raster is opened and before
\* anything is written: the call performs no I/O and leaves every binary
\* file as it was.
C4_UnsupportedTypeRaises ==
    [][(/\ call'.op = "gdal_to_binary"
        /\ call'.dtype \notin ToBinaryTypes
        /\ <<call, ret>> # <<call', ret'>>)
       => (/\ ret'.err = "NotImplementedError"
           /\ ret'.io = <<>>
           /\ bins' = bins)]_vars

\* C4 witness: an Int16 conversion of an existing raster has raised and no
\* output file exists.
C4_Witness ==
    /\ call.op = "gdal_to_binary"
    /\ call.dtype = GDT_Int16
    /\ call.inpath \in DOMAIN rasters
    /\ ret.err = "NotImplementedError"
    /\ call.outpath \notin DOMAIN bins

\* C10: binary_to_gdal with a template whose pixel type is neither Float32
\* nor Byte (CFloat32 included) raises NotImplementedError having opened
\* only the template: the mask raster and the binary are not read, no raster
\* is created or changed, so an output path that did not exist still does
\* not.
C10_TemplateTypeRaises ==
    [][(/\ call'.op = "binary_to_gdal"
        /\ call'.templatepath \in DOMAIN rasters
        /\ rasters[call'.templatepath].dtype \notin ToGdalTypes
        /\ <<call, ret>> # <<call', ret'>>)
       => (/\ ret'.err = "NotImplementedError"
           /\ ret'.io = << <<"open", call'.templatepath>> >>
           /\ rasters' = rasters
           /\ (call'.outpath \notin DOMAIN rasters
                 => call'.outpath \notin DOMAIN rasters'))]_vars

\* C10 witness: with a readable binary and mask at hand, a CFloat32 template
\* has made binary_to_gdal raise, and no output raster exists.
C10_Witness ==
    /\ call.op = "binary_to_gdal"
    /\ rasters[call.templatepath].dtype = GDT_CFloat32
    /\ call.inpath \in DOMAIN bins
    /\ call.maskpath \in DOMAIN rasters
    /\ ret.err = "NotImplementedError"
    /\ call.outpath \notin DOMAIN rasters

(***************************************************************************)
(* The driver main().  One action per statement that calls out; a failure  *)
(* of a call is an exception nothing catches, which ends the run           *)
(* (pc = "error").  The run starts with any subset of the five input       *)
(* rasters present, and with or without a bursts_reunwrapped.bin left by   *)
(* an earlier run.                                                         *)
(***************************************************************************)
files ==
    << [name |-> "bursts_unwrapped", tif |-> "bursts_unwrapped.tif",
        bin |-> "bursts_unwrapped.bin", dtype |-> GDT_Float32],
       [name |-> "bursts_unwrapped_corrected", tif |-> "bursts_unwrapped_corrected.tif",
        bin |-> "bursts_unwrapped_corrected.bin", dtype |-> GDT_Float32],
       [name |-> "bursts_wrapped", tif |-> "bursts_wrapped.tif",
        bin |-> "bursts_wrapped.bin", dtype |-> GDT_Float32],
       [name |-> "bursts_correlation", tif |-> "bursts_correlation.tif",
        bin |-> "bursts_correlation.bin", dtype |-> GDT_Float32],
       [name |-> "bursts_mask", tif |-> "bursts_mask.tif",
        bin |-> "bursts_mask.bin", dtype |-> GDT_Byte] >>

InputTifs == {files[k].tif : k \in 1..Len(files)}

InputRaster(path) ==
    IF path = "bursts_mask.tif"
    THEN Raster(GDT_Byte, 0, ModelShape, [i \in 1..NPix |-> IF i = 1 THEN 0 ELSE 1])
    ELSE Raster(GDT_Float32, -9999, ModelShape, [i \in 1..NPix |-> i])

\* What the external tool may leave at bursts_reunwrapped.bin.
ToolOutputs == {"nothing", "full", "short"}
ToolFile(kind) ==
    [itemsize |-> 4,
     items |-> [i \in 1..(IF kind = "full" THEN NPix ELSE NPix - 1) |-> 10 + i]]

Init ==
    /\ \E present \in SUBSET InputTifs :
          rasters = [p \in present |-> InputRaster(p)]
    /\ \E stale \in BOOLEAN :
          bins = IF stale
                 THEN Put(EmptyMap, "bursts_reunwrapped.bin", ToolFile("full"))
                 ELSE EmptyMap
    /\ confs = EmptyMap
    /\ call = NoCall
    /\ ret = NoReturn
    /\ pc = "convert"
    /\ file_index = 1
    /\ trace = <<>>
    /\ exit_status = -1

Step(op, arg, err) == <<op, arg, err>>

\* Mutant: a failed conversion is skipped and the loop goes on.
MainConvert_keepGoing ==
    /\ pc = "convert"
    /\ LET f == files[file_index]
           r == gdal_to_binary(rasters, bins, f.tif, f.bin, f.dtype)
       IN  /\ call' = [op |-> "gdal_to_binary", inpath |-> f.tif,
                       outpath |-> f.bin, dtype |-> f.dtype]
           /\ ret' = [err |-> r.err, io |-> r.io, value |-> <<>>]
           /\ bins' = r.bins
           /\ trace' = Append(trace, Step("gdal_to_binary", f.name, r.err))
           /\ IF file_index < Len(files)
              THEN pc' = "convert" /\ file_index' = file_index + 1
              ELSE pc' = "config" /\ file_index' = file_index
    /\ UNCHANGED <<rasters, confs, exit_status>>

\* for name, dtype in files: gdal_to_binary(name.tif, name.bin, dtype)
MainConvert ==
    /\ pc = "convert"
    /\ LET f == files[file_index]
           r == gdal_to_binary(rasters, bins, f.tif, f.bin, f.dtype)
       IN  /\ call' = [op |-> "gdal_to_binary", inpath |-> f.tif,
                       outpath |-> f.bin, dtype |-> f.dtype]
           /\ ret' = [err |-> r.err, io |-> r.io, value |-> <<>>]
           /\ bins' = r.bins
           /\ trace' = Append(trace, Step("gdal_to_binary", f.name, r.err))
           /\ IF r.err # NoFailure
              THEN pc' = "error" /\ file_index' = file_index
              ELSE IF file_index < Len(files)
              THEN pc' = "convert" /\ file_index' = file_index + 1
              ELSE pc' = "config" /\ file_index' = file_index
    /\ UNCHANGED <<rasters, confs, exit_status>>

\* The arguments main() gives write_snaphu_config.
MainConfigArgs(n_lines, n_pixels) ==
    [in_ifg |-> "bursts_unwrapped.bin",
     in_cor |-> "bursts_correlation.bin",
     looks_az |-> 4,
     looks_range |-> 20,
     shape |-> <<n_lines, n_pixels>>,
     out_conf |-> "snaphu.conf",
     out_file |-> "bursts_reunwrapped.bin",
     tile_shape |-> <<>>,
     tile_overlap |-> 600,
     in_mask |-> "bursts_mask.bin",
     unwrapped |-> TRUE]

\* ds = gdal.Open('bursts_wrapped.tif') ... write_snaphu_config(...)
MainWriteConfig ==
    /\ pc = "config"
    /\ IF "bursts_wrapped.tif" \notin DOMAIN rasters
       THEN /\ ret' = [err |-> "OpenError",
                       io |-> << <<"open", "bursts_wrapped.tif">> >>,
                       value |-> <<>>]
            /\ pc' = "error"
            /\ UNCHANGED <<confs, call, trace>>
       ELSE LET ds == rasters["bursts_wrapped.tif"]
                a == MainConfigArgs(ds.shape[1], ds.shape[2])
                r == write_snaphu_config(a)
            IN  /\ call' = [op |-> "write_snaphu_config", args |-> a]
                /\ ret' = [err |-> r.err, io |-> r.io, value |-> r.value]
                /\ confs' = IF r.err = NoFailure
                            THEN Put(confs, a.out_conf, r.text) ELSE confs
                /\ trace' = Append(trace, Step("write_snaphu_config", a.out_conf, r.err))
                /\ pc' = IF r.err = NoFailure THEN "snaphu" ELSE "error"
    /\ UNCHANGED <<rasters, bins, file_index, exit_status>>

\* Mutant: the exit status checked, a failed tool ending the run.
MainSnaphu_checked ==
    /\ pc = "snaphu"
    /\ \E status \in {0, 1}, output \in ToolOutputs :
          /\ exit_status' = status
          /\ bins' = IF output = "nothing" THEN bins
                     ELSE Put(bins, "bursts_reunwrapped.bin", ToolFile(output))
          /\ call' = [op |-> "subprocess.call",
                      cmd |-> "snaphu -f snaphu.conf |& tee -i snaphu.log"]
          /\ ret' = [err |-> NoFailure, io |-> <<>>, value |-> <<status>>]
          /\ trace' = Append(trace, Step("snaphu", "snaphu.conf", NoFailure))
          /\ pc' = IF status = 0 THEN "to_gdal" ELSE "error"
    /\ UNCHANGED <<rasters, confs, file_index>>

\* subprocess.call(cmd, shell=True): the tool exits with any status, having
\* written its output file or not; the returned status is dropped.
MainSnaphu ==
    /\ pc = "snaphu"
    /\ \E status \in {0, 1}, output \in ToolOutputs :
          /\ exit_status' = status
          /\ bins' = IF output = "nothing" THEN bins
                     ELSE Put(bins, "bursts_reunwrapped.bin", ToolFile(output))
          /\ call' = [op |-> "subprocess.call",
                      cmd |-> "snaphu -f snaphu.conf |& tee -i snaphu.log"]
          /\ ret' = [err |-> NoFailure, io |-> <<>>, value |-> <<status>>]
          /\ trace' = Append(trace, Step("snaphu", "snaphu.conf", NoFailure))
          /\ pc' = "to_gdal"
    /\ UNCHANGED <<rasters, confs, file_index>>

\* binary_to_gdal('bursts_reunwrapped.bin', 'bursts_wrapped.tif',
\*                'bursts_mask.tif', 'bursts_reunwrapped.tif')
MainToGdal ==
    /\ pc = "to_gdal"
    /\ \E mode \in WriteModes :
          LET r == binary_to_gdal(rasters, bins, "bursts_reunwrapped.bin",
                                  "bursts_wrapped.tif", "bursts_mask.tif",
                                  "bursts_reunwrapped.tif", mode)
          IN  /\ call' = [op |-> "binary_to_gdal",
                          inpath |-> "bursts_reunwrapped.bin",
                          templatepath |-> "bursts_wrapped.tif",
                          maskpath |-> "bursts_mask.tif",
                          outpath |-> "bursts_reunwrapped.tif"]
              /\ ret' = [err |-> r.err, io |-> r.io, value |-> <<>>]
              /\ rasters' = r.rasters
              /\ trace' = Append(trace, Step("binary_to_gdal", "bursts_reunwrapped.bin", r.err))
              /\ pc' = IF r.err = NoFailure THEN "done" ELSE "error"
    /\ UNCHANGED <<bins, confs, file_index, exit_status>>

Next == MainConvert \/ MainWriteConfig \/ MainSnaphu \/ MainToGdal

Spec == Init /\ [][Next]_vars

(***************************************************************************)
(* Properties of main() (checked under Spec).                              *)
(***************************************************************************)
ExpectedCalls ==
    << <<"gdal_to_binary", "bursts_unwrapped">>,
       <<"gdal_to_binary", "bursts_unwrapped_corrected">>,
       <<"gdal_to_binary", "bursts_wrapped">>,
       <<"gdal_to_binary", "bursts_correlation">>,
       <<"gdal_to_binary", "bursts_mask">>,
       <<"write_snaphu_config", "snaphu.conf">>,
       <<"snaphu", "snaphu.conf">>,
       <<"binary_to_gdal", "bursts_reunwrapped.bin">> >>

CallsMade == [k \in 1..Len(trace) |-> <<trace[k][1], trace[k][2]>>]

FailedConversions ==
    {k \in 1..Len(trace) : trace[k][1] = "gdal_to_binary" /\ trace[k][3] # NoFailure}

\* C8: the calls of a run are made in the order: the five conversions
\* (unwrapped, corrected unwrapped, wrapped, correlation, mask), config
\* generation, the external tool, binary_to_gdal.  A failed conversion is the
\* last call of its run: the run is in error, no config has been written,
\* the tool has not been invoked, no output raster exists, and the binaries
\* of the conversions before it are on disk.
C8_OrderAndAbort ==
    /\ Len(trace) <= Len(ExpectedCalls)
    /\ CallsMade = SubSeq(ExpectedCalls, 1, Len(trace))
    /\ pc = "done" => Len(trace) = Len(ExpectedCalls)
    /\ \A k \in FailedConversions :
          /\ k = Len(trace)
          /\ pc = "error"
          /\ "snaphu.conf" \notin DOMAIN confs
          /\ exit_status = -1
          /\ "bursts_reunwrapped.tif" \notin DOMAIN rasters
          /\ files[k].bin \notin DOMAIN bins
          /\ \A j \in 1..(k - 1) : files[j].bin \in DOMAIN bins

\* C8 witness: the third conversion has failed after two that succeeded.
C8_Witness ==
    /\ pc = "error"
    /\ Len(trace) = 3
    /\ 3 \in FailedConversions
    /\ "bursts_unwrapped.bin" \in DOMAIN bins
    /\ "bursts_unwrapped_corrected.bin" \in DOMAIN bins

\* C9: the step that invokes the tool always hands over to binary_to_gdal,
\* whatever status subprocess.call returned; the run is never put in error
\* by that step.
C9_ExitStatusIgnored ==
    [][(pc = "snaphu" /\ pc' # pc)
       => (/\ pc' = "to_gdal"
           /\ exit_status' \in {0, 1}
           /\ ret'.err = NoFailure)]_vars

\* C9 witness: the tool has failed and the run has gone on to finish.
C9_Witness ==
    /\ exit_status = 1
    /\ pc = "done"
    /\ trace[Len(trace)] = Step("binary_to_gdal", "bursts_reunwrapped.bin", NoFailure)

====
